---- MODULE Spec2Model ----
(***************************************************************************)
(* Gradient-based receding-horizon MPC of a 3-state RC thermal zone        *)
(* (resources/tutorials/jax/optimal_control_mpc.py).                       *)
(*                                                                         *)
(* Numbers.  The program computes in floating point; the model computes    *)
(* in exact rationals extended with NaN.  A number is a record             *)
(* [n |-> numerator, d |-> denominator] in lowest terms with d > 0, and    *)
(* NaN is the record with d = 0.  NaN propagates through every arithmetic  *)
(* operation and makes every comparison false, as IEEE-754 does.           *)
(* Arrays keep the source's 0-based indices: an array of length n is a     *)
(* function with domain 0..n-1.                                            *)
(***************************************************************************)
EXTENDS Integers, Sequences, FiniteSets, TLC

(***************************************************************************)
(* Bounds of the model                                                     *)
(***************************************************************************)
\* prediction horizon (MPC setting, 24 in __main__)
PH == 2
\* iteration budget of the optimizer loop (1000 in MPC.step)
n_epochs == 2
\* number of real control steps in the experiment window (96 in __main__)
NSteps == 2

(***************************************************************************)
(* Exact arithmetic with NaN                                               *)
(***************************************************************************)
NaN == [n |-> 0, d |-> 0]

IsNaN(x) == x.d = 0

AbsInt(k) == IF k < 0 THEN -k ELSE k

RECURSIVE GCD(_, _)
GCD(a, b) == IF b = 0 THEN a ELSE GCD(b, a % b)

Norm(num, den) ==
    IF den = 0 THEN NaN
    ELSE LET s == IF den < 0 THEN -1 ELSE 1
             g == GCD(AbsInt(num), AbsInt(den))
         IN  [n |-> (s * num) \div g, d |-> (s * den) \div g]

R(k) == [n |-> k, d |-> 1]

Zero == R(0)

One == R(1)

\* sums and products cancel common factors before multiplying, which keeps
\* the intermediate integers small
Add(x, y) == IF IsNaN(x) \/ IsNaN(y) THEN NaN
             ELSE LET g == GCD(x.d, y.d)
                  IN  Norm(x.n * (y.d \div g) + y.n * (x.d \div g), (x.d \div g) * y.d)

Neg(x) == IF IsNaN(x) THEN NaN ELSE [n |-> -x.n, d |-> x.d]

Sub(x, y) == Add(x, Neg(y))

Mul(x, y) == IF IsNaN(x) \/ IsNaN(y) THEN NaN
             ELSE LET g1 == GCD(AbsInt(x.n), y.d)
                      g2 == GCD(AbsInt(y.n), x.d)
                  IN  Norm((x.n \div g1) * (y.n \div g2), (x.d \div g2) * (y.d \div g1))

\* the divisors of the program are physical constants and 3600, never 0
Div(x, y) == IF IsNaN(x) \/ IsNaN(y) \/ y.n = 0 THEN NaN
             ELSE Norm(x.n * y.d, x.d * y.n)

Abs(x) == IF IsNaN(x) THEN NaN ELSE [n |-> AbsInt(x.n), d |-> x.d]

\* a/b < c/d for 0 <= a < b and 0 <= c < d, by comparing the continued
\* fractions (no cross product)
RECURSIVE FracLt(_, _, _, _)
FracLt(a, b, c, d) ==
    IF c = 0 THEN FALSE
    ELSE IF a = 0 THEN TRUE
    ELSE LET q1 == d \div c
             q2 == b \div a
         IN  IF q1 # q2 THEN q1 < q2 ELSE FracLt(d % c, c, b % a, a)

\* x > y; false when either side is NaN
Gt(x, y) ==
    /\ ~IsNaN(x)
    /\ ~IsNaN(y)
    /\ LET fx == x.n \div x.d
           fy == y.n \div y.d
       IN  \/ fx > fy
           \/ fx = fy /\ FracLt(y.n % y.d, y.d, x.n % x.d, x.d)

\* x <= y; false when either side is NaN
Le(x, y) == ~IsNaN(x) /\ ~IsNaN(y) /\ ~Gt(x, y)

\* int(x) of a non-negative number
Trunc(x) == x.n \div x.d

\* jax.nn.relu = maximum(x, 0), which propagates NaN
relu(x) == IF IsNaN(x) THEN NaN ELSE IF x.n > 0 THEN x ELSE Zero

MinInt(a, b) == IF a < b THEN a ELSE b

(***************************************************************************)
(* 0-based arrays                                                          *)
(***************************************************************************)
Len0(a) == Cardinality(DOMAIN a)

Append0(a, v) ==
    LET len == Len0(a)
    IN  [k \in 0..len |-> IF k < len THEN a[k] ELSE v]

\* jnp.concatenate of two 1-d arrays
Concat0(a, b) ==
    LET la == Len0(a)
        lb == Len0(b)
    IN  [k \in 0..(la + lb - 1) |-> IF k < la THEN a[k] ELSE b[k - la]]

\* a[from:]
SliceFrom(a, from) ==
    [k \in 0..(Len0(a) - from - 1) |-> a[k + from]]

RECURSIVE SumTo(_, _)
SumTo(a, len) == IF len = 0 THEN Zero ELSE Add(SumTo(a, len - 1), a[len - 1])

\* jnp.sum of a 1-d array
Sum(a) == SumTo(a, Len0(a))

\* jnp.sum of a 2-d array
Sum2(m) == Sum([i \in DOMAIN m |-> Sum(m[i])])

\* jnp.matmul(M, v)
MatVec(M, v) ==
    [i \in DOMAIN M |-> Sum([j \in DOMAIN v |-> Mul(M[i][j], v[j])])]

VAdd(x, y) == [i \in DOMAIN x |-> Add(x[i], y[i])]

VScale(x, c) == [i \in DOMAIN x |-> Mul(x[i], c)]

\* retrieval a[i] of a jax array: an index past the end is clamped to the
\* last element
Index(a, i) == a[MinInt(i, Len0(a) - 1)]

(***************************************************************************)
(* MPC.__init__: constants of the controller                               *)
(***************************************************************************)
NU == 1

occ_start == 8

occ_end == 18

\* self.u_lb, an array of shape (1, NU)
u_lb == [k \in 0..(NU - 1) |-> R(-10)]

\* self.u_ub, an array of shape (1, NU)
u_ub == [k \in 0..(NU - 1) |-> R(0)]

\* self.T_ub: 30 everywhere, then the slice occ_start:occ_end set to 26
T_ub == [h \in 0..23 |-> IF occ_start <= h /\ h < occ_end THEN R(26) ELSE R(30)]

\* self.T_lb: 12 everywhere, then the slice occ_start:occ_end set to 22
T_lb == [h \in 0..23 |-> IF occ_start <= h /\ h < occ_end THEN R(22) ELSE R(12)]

\* jnp.repeat(self.u_ub, self.PH).reshape(-1, 1)
u_start_init == [k \in 0..(PH * NU - 1) |-> u_ub[k \div PH]]

\* variant: the sequence is shifted the other way
set_u_start_shift_right(u_prev) ==
    Concat0(u_ub, [k \in 0..(Len0(u_prev) - NU - 1) |-> u_prev[k]])

\* MPC.set_u_start_from_last_step: the new value of self.u_start
set_u_start_from_last_step(u_prev) == Concat0(SliceFrom(u_prev, NU), u_ub)

(***************************************************************************)
(* The plant: get_ABCD, zone_state_space, f                                *)
(***************************************************************************)
Zeros(rows, cols) == [i \in 0..(rows - 1) |-> [j \in 0..(cols - 1) |-> Zero]]

get_ABCD(Cai, Cwe, Cwi, Re, Ri, Rw, Rg) ==
    LET A == [Zeros(3, 3) EXCEPT
                ![0][0] = Mul(Div(R(-1), Cai), Add(Div(One, Rg), Div(One, Ri))),
                ![0][2] = Div(One, Mul(Cai, Ri)),
                ![1][1] = Mul(Div(R(-1), Cwe), Add(Div(One, Re), Div(One, Rw))),
                ![1][2] = Div(One, Mul(Cwe, Rw)),
                ![2][0] = Div(One, Mul(Cwi, Ri)),
                ![2][1] = Div(One, Mul(Cwi, Rw)),
                ![2][2] = Mul(Div(R(-1), Cwi), Add(Div(One, Rw), Div(One, Ri)))]
        B == [Zeros(3, 5) EXCEPT
                ![0][0] = Div(One, Mul(Cai, Rg)),
                ![0][1] = Div(One, Cai),
                ![0][2] = Div(One, Cai),
                ![1][0] = Div(One, Mul(Cwe, Re)),
                ![1][3] = Div(One, Cwe),
                ![2][4] = Div(One, Cwi)]
        C == [Zeros(1, 3) EXCEPT ![0][0] = One]
    IN  [A |-> A, B |-> B, C |-> C, D |-> Zero]

\* dx = A x + B d
zone_state_space(t, x, A, B, d) == VAdd(MatVec(A, x), MatVec(B, d))

\* args = (A, B, d)
f(t, x, args) == zone_state_space(t, x, args.A, args.B, args.d)

\* solver.step of diffrax.Euler: y1 = y0 + f(t0, y0, args) * (t1 - t0)
EulerStep(t0, t1, y0, args) == VAdd(y0, VScale(f(t0, y0, args), R(t1 - t0)))

(***************************************************************************)
(* forward: the horizon simulator.  The result carries the time stamps,    *)
(* the trajectory and, in reads, the row indices of d that were read.      *)
(***************************************************************************)
\* variant: the disturbance row is not advanced with the step
RECURSIVE forward_loop_stale(_, _, _, _, _, _, _, _, _, _, _, _)
forward_loop_stale(te, dt, A, B, d, tprev, tnext, i, x, args, t_all, acc) ==
    IF ~(tprev < te) THEN [t_all |-> t_all, x_all |-> acc.x_all, reads |-> acc.reads]
    ELSE LET x1     == EulerStep(tprev, tnext, x, args)
             tprev1 == tnext
             tnext1 == MinInt(tprev1 + dt, te)
             i1     == i + 1
             dnext  == Index(d, i)
         IN  forward_loop_stale(te, dt, A, B, d, tprev1, tnext1, i1, x1,
                                [A |-> A, B |-> B, d |-> dnext],
                                Append0(t_all, tnext1),
                                [x_all |-> Append0(acc.x_all, x1),
                                 reads |-> Append(acc.reads, i)])

RECURSIVE forward_loop(_, _, _, _, _, _, _, _, _, _, _, _)
forward_loop(te, dt, A, B, d, tprev, tnext, i, x, args, t_all, acc) ==
    IF ~(tprev < te) THEN [t_all |-> t_all, x_all |-> acc.x_all, reads |-> acc.reads]
    ELSE LET x1     == EulerStep(tprev, tnext, x, args)
             tprev1 == tnext
             tnext1 == MinInt(tprev1 + dt, te)
             i1     == i + 1
             dnext  == Index(d, i1)
         IN  forward_loop(te, dt, A, B, d, tprev1, tnext1, i1, x1,
                          [A |-> A, B |-> B, d |-> dnext],
                          Append0(t_all, tnext1),
                          [x_all |-> Append0(acc.x_all, x1),
                           reads |-> Append(acc.reads, i1)])

forward(ts, te, dt, x0, A, B, d) ==
    forward_loop(te, dt, A, B, d, ts, ts + dt, 0, x0,
                 [A |-> A, B |-> B, d |-> Index(d, 0)],
                 [k \in 0..0 |-> ts],
                 [x_all |-> [k \in 0..0 |-> x0], reads |-> <<0>>])

(***************************************************************************)
(* The cost: get_u_violations, get_T_violations, loss_mpc                  *)
(***************************************************************************)
\* variant: the two control bounds are exchanged
get_u_violations_swapped(u) ==
    Sum([k \in DOMAIN u |-> Add(relu(Sub(u[k], u_lb[0])), relu(Sub(u_ub[0], u[k])))])

\* u has shape (PH, 1) and the bounds shape (1, 1): elementwise over u
get_u_violations(u) ==
    Sum([k \in DOMAIN u |-> Add(relu(Sub(u[k], u_ub[0])), relu(Sub(u_lb[0], u[k])))])

\* Tz_ph has shape (PH+1,) and the bounds have shape (PH, 1); numpy
\* broadcasting of (PH+1,) against (PH, 1) gives the (PH, PH+1) array
\* whose entry [i][j] combines bound i with sample j, and .sum() adds all
\* of its entries.
T_violations_of(Tz_ph, T_ub_ph, T_lb_ph) ==
    LET T_vio_ub_ph == [i \in DOMAIN T_ub_ph |->
                          [j \in DOMAIN Tz_ph |-> relu(Sub(Tz_ph[j], T_ub_ph[i]))]]
        T_vio_lb_ph == [i \in DOMAIN T_lb_ph |->
                          [j \in DOMAIN Tz_ph |-> relu(Sub(T_lb_ph[i], Tz_ph[j]))]]
    IN  Add(Sum2(T_vio_ub_ph), Sum2(T_vio_lb_ph))

\* the result carries T_vios and the forward() call that produced it
get_T_violations(zone_model, state, ts, te, dt, disturbance, T_ub_ph, T_lb_ph) ==
    LET abcd  == get_ABCD(zone_model[0], zone_model[1], zone_model[2], zone_model[3],
                          zone_model[4], zone_model[5], zone_model[6])
        sim   == forward(ts, te, dt, state, abcd.A, abcd.B, disturbance)
        Tz_ph == [j \in DOMAIN sim.x_all |-> sim.x_all[j][0]]
    IN  [T_vios |-> T_violations_of(Tz_ph, T_ub_ph, T_lb_ph), sim |-> sim]

\* obj = price*|u|*dt/3600 + T_vios + u_vios has the shape (PH, 1) of u:
\* the two scalars are broadcast to every row before jnp.sum
objective(u, dt, price, T_vios, u_vios) ==
    Sum([k \in DOMAIN u |->
           Add(Add(Div(Mul(Mul(price[k], Abs(u[k])), R(dt)), R(3600)), T_vios), u_vios)])

\* d = concatenate((disturbance[:, :2], u, disturbance[:, 3:]), axis=1)
control_into(disturbance, u) ==
    [r \in DOMAIN disturbance |->
        Concat0(Concat0([c \in 0..1 |-> disturbance[r][c]], [c \in 0..0 |-> u[r]]),
                SliceFrom(disturbance[r], 3))]

loss_mpc(zone_model, u, state, ts, te, dt, disturbance, T_ub_ph, T_lb_ph, price_ph) ==
    LET d      == control_into(disturbance, u)
        tv     == get_T_violations(zone_model, state, ts, te, dt, d, T_ub_ph, T_lb_ph)
        u_vios == get_u_violations(u)
    IN  [loss |-> objective(u, dt, price_ph, tv.T_vios, u_vios), sim |-> tv.sim]

(***************************************************************************)
(* MPC.step: the local constants of the optimizer loop                     *)
(***************************************************************************)
tolerance == [n |-> 1, d |-> 1000000]

BIG_NUMBER == R(1000000)

\* variant: the horizon step is counted from 1
hour_index_from_one(ts, ph, dt) == Trunc(Div(R((ts + (ph + 1) * dt) % 86400), R(3600)))

\* h = int((t % 86400) / 3600) with t = int(ts + ph*dt)
hour_index(ts, ph, dt) == Trunc(Div(R((ts + ph * dt) % 86400), R(3600)))

\* the loop condition of the optimizer: epoch < n_epochs and loss > tolerance
loop_cond(epoch_, loss_) == epoch_ < n_epochs /\ Gt(loss_, tolerance)

(***************************************************************************)
(* Inputs of an experiment                                                 *)
(***************************************************************************)
RVec(s) == [k \in 0..(Len(s) - 1) |-> R(s[k + 1])]

\* controller time step dt in seconds (900 in __main__)
Dts == {1800, 3600}

\* experiment start ts (day 195 in __main__): before the occupancy start,
\* before the occupancy end and before midnight
StartTimes == {195 * 86400 + 7 * 3600, 195 * 86400 + 17 * 3600, 195 * 86400 + 23 * 3600}

\* predictor['zone_model'] = [Cai, Cwe, Cwi, Re, Ri, Rw, Rg]
ZoneModels == {RVec(<<7200, 3600, 14400, 1, 1, 1, 1>>)}

\* initial plant state
InitStates == {RVec(<<20, 27, 27>>)}

\* hourly energy price: the three tiers of the schedule of __main__
price ==
    [h \in 0..23 |-> IF h < 6 \/ h >= 22 THEN R(3)
                     ELSE IF h < 12 \/ h >= 19 THEN R(5) ELSE R(16)]

\* the rows of the disturbance frame, row k holding the label base + k*dt:
\* a calm day, a hot day, and a hot day with a missing ambient reading
Profiles == {"mild", "hot", "gap"}

dist_row(profile, k) ==
    IF profile = "mild" THEN RVec(<<24, 0, 0, 0, 0>>)
    ELSE LET row == RVec(<<30 + k, 2, 7, 1, 3>>)
         IN  IF profile = "gap" /\ k = 2 THEN [row EXCEPT ![0] = NaN] ELSE row

dist_frame(profile, base, step) ==
    [base |-> base, step |-> step,
     rows |-> [k \in 0..(NSteps + PH) |-> dist_row(profile, k)]]

\* disturbance.loc[ts : ts+PH*dt-1, :], a label slice that includes both ends
get_disturbance_ph(disturbance, ts, PH_, dt) ==
    LET ks    == {k \in DOMAIN disturbance.rows :
                    /\ ts <= disturbance.base + k * disturbance.step
                    /\ disturbance.base + k * disturbance.step <= ts + PH_ * dt - 1}
        first == CHOOSE k \in ks : \A k2 \in ks : k <= k2
    IN  [r \in 0..(Cardinality(ks) - 1) |-> disturbance.rows[first + r]]

\* the values an iterate of the optimizer may take
UVals == {R(-12), R(0)}

\* optimizer.update followed by optax.apply_updates: the AdamW step is not
\* computed; the next iterate is any sequence of the shape of params, and
\* it may be NaN when the cost was
adamw_update(params_, loss_) ==
    [DOMAIN params_ -> UVals] \cup
        (IF IsNaN(loss_) THEN {[k \in DOMAIN params_ |-> NaN]} ELSE {})

\* variant: a later entry of the sequence is applied
applied_input_later_entry(dist_t_ph_, u_ph_) ==
    [r \in 0..0 |-> [dist_t_ph_[0] EXCEPT ![2] = u_ph_[1]]]

\* __main__: u_ch = u_ph[0][0]; dist_t = dist_t_ph[0,:].reshape(1,-1);
\* dist_t = dist_t.at[0, 2].set(u_ch)
applied_input(dist_t_ph_, u_ph_) ==
    [r \in 0..0 |-> [dist_t_ph_[0] EXCEPT ![2] = u_ph_[0]]]

(***************************************************************************)
(* State                                                                   *)
(***************************************************************************)
VARIABLES
    pc,          \* position: "loop" head of the closed loop, "opt" inside the
                 \* while loop of MPC.step, "ret" MPC.step has returned, "done"
    dt,          \* control time step (MPC.dt and dt of __main__)
    zone_model,  \* predictor['zone_model']
    dist,        \* the disturbance frame of __main__
    t,           \* loop variable of the closed loop
    te,          \* end of the experiment window
    state,       \* the plant state of __main__
    u_ph,        \* __main__: the sequence returned by the last mpc.step
    dist_t_ph,   \* __main__: disturbance rows of the current horizon
    dist_t,      \* __main__: the input applied to the plant, shape (1, 5)
    u_opt,       \* log of applied controls
    Tz_opt,      \* log of zone temperatures
    To_opt,      \* log of outdoor temperatures
    self_time,   \* MPC.time
    self_state,  \* MPC.state
    u_start,     \* MPC.u_start
    h_ph,        \* MPC.step: hour index per horizon step
    price_ph,    \* MPC.step: price per horizon step
    T_ub_ph,     \* MPC.step: upper comfort bound per horizon step
    T_lb_ph,     \* MPC.step: lower comfort bound per horizon step
    params,      \* MPC.step: params['u'], the iterate of the optimizer
    epoch,       \* MPC.step: iteration count
    loss,        \* MPC.step: last evaluated cost
    step_u_ph,   \* MPC.step: its local u_ph
    xs,          \* trajectory returned by the last call of forward
    reads,       \* row indices of d read by the last call of forward
    rows         \* number of rows of d in the last call of forward

vars == <<pc, dt, zone_model, dist, t, te, state, u_ph, dist_t_ph, dist_t,
          u_opt, Tz_opt, To_opt, self_time, self_state, u_start, h_ph,
          price_ph, T_ub_ph, T_lb_ph, params, epoch, loss, step_u_ph,
          xs, reads, rows>>

config == <<dt, zone_model, dist, te>>

main_vars == <<t, state, u_ph, dist_t_ph, dist_t, u_opt, Tz_opt, To_opt>>

mpc_fields == <<self_time, self_state, u_start>>

schedule_locals == <<h_ph, price_ph, T_ub_ph, T_lb_ph>>

\* a name that is not bound yet
None == <<>>

matrices == get_ABCD(zone_model[0], zone_model[1], zone_model[2], zone_model[3],
                     zone_model[4], zone_model[5], zone_model[6])

(***************************************************************************)
(* Init: __main__ up to the closed loop, MPC.__init__                      *)
(***************************************************************************)
Init ==
    /\ pc = "loop"
    /\ dt \in Dts
    /\ zone_model \in ZoneModels
    /\ t \in StartTimes
    /\ te = t + NSteps * dt
    /\ \E profile \in Profiles : dist = dist_frame(profile, t, dt)
    /\ state \in InitStates
    /\ u_start = u_start_init
    /\ u_ph = None /\ dist_t_ph = None /\ dist_t = None
    /\ u_opt = <<>> /\ Tz_opt = <<>> /\ To_opt = <<>>
    /\ self_time = None /\ self_state = None
    /\ h_ph = None /\ price_ph = None /\ T_ub_ph = None /\ T_lb_ph = None
    /\ params = None /\ epoch = 0 /\ loss = Zero /\ step_u_ph = None
    /\ xs = None /\ reads = <<>> /\ rows = 0

\* variant: the end of the window is included
in_range_inclusive(t_, te_) == t_ <= te_

\* for t in range(ts, te, dt): the loop variable is still inside the window
in_range(t_, te_) == t_ < te_

(***************************************************************************)
(* One pass of the closed loop up to the optimizer loop: get the horizon   *)
(* disturbance, set_time, set_state, and the prologue of MPC.step          *)
(***************************************************************************)
Begin ==
    /\ pc = "loop"
    /\ in_range(t, te)
    /\ dist_t_ph' = get_disturbance_ph(dist, t, PH, dt)
    /\ self_time' = t
    /\ self_state' = state
    /\ h_ph' = [ph \in 0..(PH - 1) |-> hour_index(t, ph, dt)]
    /\ price_ph' = [ph \in 0..(PH - 1) |-> price[h_ph'[ph]]]
    /\ T_ub_ph' = [ph \in 0..(PH - 1) |-> T_ub[h_ph'[ph]]]
    /\ T_lb_ph' = [ph \in 0..(PH - 1) |-> T_lb[h_ph'[ph]]]
    /\ params' = u_start
    /\ epoch' = 0
    /\ loss' = BIG_NUMBER
    /\ step_u_ph' = None
    /\ pc' = "opt"
    /\ UNCHANGED <<config, t, state, u_ph, dist_t, u_opt, Tz_opt, To_opt,
                   u_start, xs, reads, rows>>

(***************************************************************************)
(* One iteration of the while loop of MPC.step                             *)
(***************************************************************************)
\* variant: the end of the simulated horizon is stored as the controller state
Iterate_store_trajectory ==
    /\ pc = "opt"
    /\ loop_cond(epoch, loss)
    /\ \E ev \in {loss_mpc(zone_model, params, self_state, self_time,
                            self_time + PH * dt, dt, dist_t_ph,
                            T_ub_ph, T_lb_ph, price_ph)} :
           /\ step_u_ph' = params
           /\ loss' = ev.loss
           /\ xs' = ev.sim.x_all
           /\ reads' = ev.sim.reads
           /\ rows' = Len0(dist_t_ph)
           /\ params' \in adamw_update(params, ev.loss)
           /\ self_state' = ev.sim.x_all[Len0(ev.sim.x_all) - 1]
    /\ epoch' = epoch + 1
    /\ UNCHANGED <<pc, config, main_vars, self_time, u_start, schedule_locals>>

Iterate ==
    /\ pc = "opt"
    /\ loop_cond(epoch, loss)
    /\ \E ev \in {loss_mpc(zone_model, params, self_state, self_time,
                            self_time + PH * dt, dt, dist_t_ph,
                            T_ub_ph, T_lb_ph, price_ph)} :
           /\ step_u_ph' = params
           /\ loss' = ev.loss
           /\ xs' = ev.sim.x_all
           /\ reads' = ev.sim.reads
           /\ rows' = Len0(dist_t_ph)
           /\ params' \in adamw_update(params, ev.loss)
    /\ epoch' = epoch + 1
    /\ UNCHANGED <<pc, config, main_vars, mpc_fields, schedule_locals>>

(***************************************************************************)
(* The while loop of MPC.step ends: return u_ph to __main__                *)
(***************************************************************************)
\* variant: the parameters after the last update are returned
Return_updated_params ==
    /\ pc = "opt"
    /\ ~loop_cond(epoch, loss)
    /\ u_ph' = params
    /\ pc' = "ret"
    /\ h_ph' = None /\ price_ph' = None /\ T_ub_ph' = None /\ T_lb_ph' = None
    /\ params' = None /\ epoch' = 0 /\ loss' = Zero /\ step_u_ph' = None
    /\ UNCHANGED <<config, t, state, dist_t_ph, dist_t, u_opt, Tz_opt, To_opt,
                   mpc_fields, xs, reads, rows>>

Return ==
    /\ pc = "opt"
    /\ ~loop_cond(epoch, loss)
    /\ u_ph' = step_u_ph
    /\ pc' = "ret"
    \* the locals of MPC.step end with the call
    /\ h_ph' = None /\ price_ph' = None /\ T_ub_ph' = None /\ T_lb_ph' = None
    /\ params' = None /\ epoch' = 0 /\ loss' = Zero /\ step_u_ph' = None
    /\ UNCHANGED <<config, t, state, dist_t_ph, dist_t, u_opt, Tz_opt, To_opt,
                   mpc_fields, xs, reads, rows>>

(***************************************************************************)
(* The rest of the pass: warm start for the next step, apply the first     *)
(* control to the plant, log, advance the loop variable                    *)
(***************************************************************************)
Apply ==
    /\ pc = "ret"
    /\ u_start' = set_u_start_from_last_step(u_ph)
    /\ LET u_ch == u_ph[0]
           row  == applied_input(dist_t_ph, u_ph)[0]
       IN  \E sim \in {forward(t, t + dt, dt, state, matrices.A, matrices.B,
                               applied_input(dist_t_ph, u_ph))} :
           /\ dist_t' = applied_input(dist_t_ph, u_ph)
           /\ xs' = sim.x_all
           /\ reads' = sim.reads
           /\ rows' = 1
           /\ state' = sim.x_all[Len0(sim.x_all) - 1]
           /\ u_opt' = Append(u_opt, u_ch)
           /\ Tz_opt' = Append(Tz_opt, state'[0])
           /\ To_opt' = Append(To_opt, row[0])
    /\ t' = t + dt
    /\ pc' = "loop"
    /\ UNCHANGED <<config, u_ph, dist_t_ph, self_time, self_state,
                   schedule_locals, params, epoch, loss, step_u_ph>>

(***************************************************************************)
(* The experiment window is exhausted                                      *)
(***************************************************************************)
Finish ==
    /\ pc = "loop"
    /\ ~in_range(t, te)
    /\ pc' = "done"
    /\ UNCHANGED <<config, main_vars, mpc_fields, schedule_locals, params,
                   epoch, loss, step_u_ph, xs, reads, rows>>

Next == Begin \/ Iterate \/ Return \/ Apply \/ Finish

Spec == Init /\ [][Next]_vars

(***************************************************************************)
(* Properties of the cost                                                  *)
(***************************************************************************)
\* a cost has been evaluated in the current MPC step: step_u_ph is the
\* sequence it was evaluated at and xs the simulated trajectory
Evaluated == pc = "opt" /\ epoch >= 1

\* zone temperature samples of the last simulated trajectory
Tz == [j \in DOMAIN xs |-> xs[j][0]]

AllFinite(a) == \A k \in DOMAIN a : ~IsNaN(a[k])

\* the documented cost: every term summed once over the horizon steps,
\* sample t against the bounds of step t
documented_cost(u, Tz_) ==
    LET steps == 0..(PH - 1)
    IN  Add(Add(Sum([k \in steps |-> Div(Mul(Mul(price_ph[k], Abs(u[k])), R(dt)), R(3600))]),
                Sum([k \in steps |-> relu(Sub(Tz_[k], T_ub_ph[k]))])),
            Add(Sum([k \in steps |-> relu(Sub(T_lb_ph[k], Tz_[k]))]),
                Sum([k \in steps |-> Add(relu(Sub(u[k], u_ub[0])),
                                         relu(Sub(u_lb[0], u[k])))])))

\* C1: the cost returned by loss_mpc is the documented sum
\*   sum_t price_t*|u_t|*dt/3600 + sum_t relu(Tz_t - T_ub_t)
\*   + sum_t relu(T_lb_t - Tz_t) + sum_t [relu(u_t - u_ub) + relu(u_lb - u_t)],
\* each sample compared with the bound of its own step, each term once
C1_LossIsDocumentedCost ==
    Evaluated => loss = documented_cost(step_u_ph, Tz)

\* the cost the code computes for the control sequence u and the zone
\* temperature samples Tz_, with the bounds and prices of the current step
cost_at(u, Tz_) ==
    objective(u, dt, price_ph, T_violations_of(Tz_, T_ub_ph, T_lb_ph),
              get_u_violations(u))

Deltas == {1, 4}

\* C2: with the control sequence and all other samples fixed, raising one
\* zone temperature sample from its upper bound T_ub to T_ub + D raises the
\* cost by exactly D
C2_UnitSlopeAboveBound ==
    (Evaluated /\ AllFinite(Tz)) =>
        \A j \in 0..(PH - 1) : \A D \in Deltas :
            Sub(cost_at(step_u_ph, [Tz EXCEPT ![j] = Add(T_ub_ph[j], R(D))]),
                cost_at(step_u_ph, [Tz EXCEPT ![j] = T_ub_ph[j]])) = R(D)

\* the control is all zero and every sample lies strictly inside the
\* comfort band of every horizon step
StrictlyInside ==
    /\ \A k \in DOMAIN step_u_ph : step_u_ph[k] = Zero
    /\ \A j \in DOMAIN Tz : \A i \in 0..(PH - 1) :
          Gt(Tz[j], T_lb_ph[i]) /\ Gt(T_ub_ph[i], Tz[j])

\* C3: zero control and a trajectory strictly inside all comfort bounds
\* cost exactly 0
C3_ZeroCostInside ==
    (Evaluated /\ StrictlyInside) => loss = Zero

C3_Witness ==
    /\ Evaluated
    /\ StrictlyInside
    /\ loss = Zero
    /\ Tz[0] # Tz[1]

(***************************************************************************)
(* Properties of MPC.step and of the closed loop                           *)
(***************************************************************************)
\* the step of the model in which MPC.step returns
Returns == pc = "opt" /\ pc' = "ret"

\* number of real control steps completed so far
StepsDone == Len(u_opt)

\* C4: the optimizer loop runs at most max_iters iterations, stops right
\* after the first iteration whose cost is <= tolerance, and when no
\* evaluated cost is <= tolerance it stops exactly when the iteration count
\* equals max_iters
C4_LoopStopsOnToleranceOrBudget ==
    [][/\ epoch' <= n_epochs
       /\ (Evaluated /\ Le(loss, tolerance)) => pc' = "ret"
       /\ Returns => (epoch >= 1 /\ (Le(loss, tolerance) \/ epoch = n_epochs))]_vars

\* C5: during MPC.step neither the plant state nor the controller's copy
\* of it changes, the copy equals the plant state, and the plant state is
\* only assigned in the closed loop after MPC.step has returned
C5_PlantStateUntouchedByStep ==
    [][/\ pc = "opt" => (state' = state /\ self_state' = self_state /\ self_state = state)
       /\ state' # state => (pc = "ret" /\ pc' = "loop")]_vars

C5_Witness ==
    /\ pc = "opt"
    /\ epoch >= 2
    /\ StepsDone >= 1
    /\ self_state = state
    /\ xs[Len0(xs) - 1] # state

\* C6: the optimizer starts from a sequence of length PH: all u_ub at the
\* first real step, afterwards the previously returned sequence shifted left
\* by one with u_ub as the last entry
C6_WarmStartIsShiftedPrevious ==
    /\ Len0(u_start) = PH
    /\ (pc = "opt" /\ epoch = 0) =>
          /\ Len0(params) = PH
          /\ params[PH - 1] = u_ub[0]
          /\ IF StepsDone = 0
             THEN \A k \in 0..(PH - 1) : params[k] = u_ub[0]
             ELSE \A k \in 0..(PH - 2) : params[k] = u_ph[k + 1]

C6_Witness ==
    /\ pc = "opt"
    /\ epoch = 0
    /\ StepsDone >= 1
    /\ u_ph[0] = Zero
    /\ u_ph[1] # Zero
    /\ params[0] = u_ph[1]

\* C7: horizon step s uses the hour h = floor(((time + s*dt) mod 86400) / 3600),
\* which lies in 0..23, and entry h of the price and comfort schedules
\* (26/22 for h in 8..17, 30/12 otherwise)
C7_HourOfDayLookup ==
    pc = "opt" =>
        \A s \in 0..(PH - 1) :
            LET h == ((self_time + s * dt) % 86400) \div 3600
            IN  /\ h_ph[s] = h
                /\ h \in 0..23
                /\ price_ph[s] = price[h]
                /\ T_ub_ph[s] = (IF h \in 8..17 THEN R(26) ELSE R(30))
                /\ T_lb_ph[s] = (IF h \in 8..17 THEN R(22) ELSE R(12))

C7_Witness ==
    /\ pc = "opt"
    /\ h_ph[0] = 7
    /\ h_ph[1] = 8
    /\ T_ub_ph[0] = R(30)
    /\ T_ub_ph[1] = R(26)

\* C8: when the cost evaluated in an MPC step is NaN, the value MPC.step
\* returns shows the failure
C8_NaNCostSurfaced ==
    [][(Returns /\ IsNaN(loss)) => \E k \in DOMAIN u_ph' : IsNaN(u_ph'[k])]_vars

\* the row of the disturbance frame labelled with the time of the last
\* MPC step
current_row ==
    dist.rows[CHOOSE k \in DOMAIN dist.rows : dist.base + k * dist.step = self_time]

\* C9: the input applied to the plant is the disturbance of the current
\* step with channel 2 replaced by the first entry of the sequence returned
\* by this step's optimization and the other channels unchanged
C9_FirstActionApplied ==
    (pc \in {"loop", "done"} /\ StepsDone >= 1) =>
        /\ Len0(dist_t) = 1
        /\ dist_t[0][2] = u_ph[0]
        /\ \A c \in {0, 1, 3, 4} : dist_t[0][c] = current_row[c]
        /\ u_opt[StepsDone] = u_ph[0]
        /\ state = VAdd(self_state,
                        VScale(VAdd(MatVec(matrices.A, self_state),
                                    MatVec(matrices.B, dist_t[0])), R(dt)))

C9_Witness ==
    /\ pc = "loop"
    /\ StepsDone >= 2
    /\ u_ph[0] # u_ph[1]
    /\ dist_t[0][2] = u_ph[0]
    /\ current_row[2] # u_ph[0]
    /\ AllFinite(state)

\* the explicit Euler update of row x under the input d, m holding A and B
euler_row(m, x, d) ==
    VAdd(x, VScale(VAdd(MatVec(m.A, x), MatVec(m.B, d)), R(dt)))

\* C10: forward returns n_steps+1 states, row 0 is x0 and row i+1 is
\* row_i + dt*(A*row_i + B*d_i), d_i being disturbance row i with channel 2
\* replaced by control entry i
C10_ForwardIsEulerPerRow ==
    /\ Evaluated =>
          /\ Len0(xs) = PH + 1
          /\ xs[0] = self_state
          /\ \E m \in {matrices} : \A i \in 0..(PH - 1) :
                xs[i + 1] = euler_row(m, xs[i], [dist_t_ph[i] EXCEPT ![2] = step_u_ph[i]])
    /\ (pc \in {"loop", "done"} /\ StepsDone >= 1) =>
          /\ Len0(xs) = 2
          /\ xs[0] = self_state
          /\ xs[1] = euler_row(matrices, xs[0], dist_t[0])

C10_Witness ==
    /\ Evaluated
    /\ step_u_ph[0] # step_u_ph[1]
    /\ dist_t_ph[0] # dist_t_ph[1]
    /\ dist_t_ph[1][2] # step_u_ph[1]
    /\ \A j \in DOMAIN xs : AllFinite(xs[j])
    /\ xs[2] # xs[1]

\* the three logs have one record per completed real step
OneRecordPerStep == Len(Tz_opt) = StepsDone /\ Len(To_opt) = StepsDone

\* C11: pass k of the closed loop sets the controller time to ts + k*dt,
\* which lies before te; every pass is one MPC step followed by one plant
\* update and one log record, which advances the time by dt; the loop ends
\* after the pass of the last time below te
C11_ClosedLoopAdvancesByDt ==
    [][/\ OneRecordPerStep'
       /\ pc' \in {"opt", "ret"} =>
             (self_time' = dist.base + StepsDone' * dt /\ self_time' < te)
       /\ pc' = "loop" => t' = dist.base + StepsDone' * dt
       /\ pc' = "done" =>
             /\ dist.base + (StepsDone' - 1) * dt < te
             /\ ~(dist.base + StepsDone' * dt < te)
       /\ StepsDone' # StepsDone =>
             /\ pc = "ret" /\ pc' = "loop"
             /\ StepsDone' = StepsDone + 1
             /\ t' = t + dt
             /\ state' = xs'[1]
       /\ pc = "loop" => (pc' = "opt" \/ pc' = "done")
       /\ pc = "opt" => (pc' = "opt" \/ pc' = "ret")]_vars

C11_Witness ==
    /\ pc = "done"
    /\ StepsDone = NSteps
    /\ OneRecordPerStep
    /\ t = dist.base + NSteps * dt
    /\ self_time = t - dt

\* C12: every row index of the disturbance array read by a call of forward
\* lies in 0..R-1, R being the number of rows of the array passed in
C12_ReadsWithinDisturbance ==
    \A k \in 1..Len(reads) : reads[k] \in 0..(rows - 1)

\* the cost of the control sequence u in the current MPC step
cost_of(u) ==
    loss_mpc(zone_model, u, self_state, self_time, self_time + PH * dt, dt,
             dist_t_ph, T_ub_ph, T_lb_ph, price_ph).loss

\* C13: MPC.step returns the iterate at which the last cost of the loop was
\* evaluated, not the result of the last update; when the loop stops on a
\* cost <= tolerance, the returned sequence has a cost <= tolerance
C13_ReturnsEvaluatedIterate ==
    [][Returns =>
          /\ u_ph' = step_u_ph
          /\ loss = cost_at(step_u_ph, Tz)
          /\ Le(loss, tolerance) => Le(cost_of(u_ph'), tolerance)]_vars

C13_Witness ==
    /\ Evaluated
    /\ Le(loss, tolerance)
    /\ cost_of(step_u_ph) = loss
    /\ params # step_u_ph
    /\ Gt(cost_of(params), tolerance)

====
